---- MODULE Spec2Model ----
(***************************************************************************)
(* A model of thecxx/go-mysql: the Client (mysql/client.go: replica        *)
(* registration, round-robin read routing, write routing, teardown) and    *)
(* the Result (mysql/database.go: materialisation of a row cursor or a     *)
(* mutation outcome).                                                      *)
(*                                                                         *)
(* Spec       - goroutines calling the methods of one Client, one          *)
(*              statement of the source per step.                          *)
(* SpecResult - one caller producing Results through Database,             *)
(*              Transaction and Statement and consuming them.              *)
(***************************************************************************)
EXTENDS Integers, Sequences, FiniteSets, TLC

\* ------------------------------------------------------------------ bounds
NumThreads == 2          \* goroutines sharing the Client
MaxCalls == 3            \* calls made on the Client over a run
MaxRows == 2             \* rows a cursor delivers
MaxUses == 3             \* calls made on one Result

\* --------------------------------------------------------------- constants
MaxInt32 == 2147483647   \* Client.cursor is an int32
MinInt32 == (-MaxInt32) - 1

Threads == 1 .. NumThreads
Nobody == 0              \* no goroutine (mutex writer slot)

\* Handles (*Database values) are numbered: the primary is 0, the k-th
\* handle opened by SetReplica is k.
PrimaryDb == 0
NoDb == -2               \* a nil *Database
Garbage == -1            \* what a torn read of the slice header yields

ErrNil == "nil"
ErrorClientInvalidReplica == "invalid replica"
ErrOpen == "open failed"
ErrPing == "ping failed"
Panic == "panic"

ReadOps == {"Query", "QueryContext", "GetReplica"}
PrimaryOps == {"Exec", "ExecContext", "BeginTransaction",
               "BeginTransactionContext", "GetPrimary"}

VARIABLES
    primary,     \* Client.primary
    replicas,    \* Client.replicas
    cursor,      \* Client.cursor
    mutex,       \* Client.mutex: [w: writer or Nobody, r: set of readers]
    opened,      \* number of handles SetReplica has opened
    pc,          \* pc[t]: the statement goroutine t executes next
    call,        \* call[t]: the locals of the call goroutine t is in
    ret,         \* the call that returned last, with what it returned
    picks,       \* the read selections, in the order they were made
    calls,       \* number of calls made on the Client
    \* ---- Result (SpecResult)
    result,      \* the Result value the caller holds
    rows,        \* the *sql.Rows that Result.rows points to
    made,        \* the call that produced the Result, and the error it returned
    out,         \* what the last call on the Result returned
    uses         \* number of calls made on the Result

clientVars == <<primary, replicas, cursor, mutex, opened, pc, call, ret,
                picks, calls>>
resultVars == <<result, rows, made, out, uses>>
vars == <<primary, replicas, cursor, mutex, opened, pc, call, ret, picks,
          calls, result, rows, made, out, uses>>

\* ================================================================= Client

NoCall == [op |-> "none", arg |-> "none", n |-> 0, d |-> NoDb, err |-> ErrNil,
           tmp |-> <<>>, view |-> <<>>, i |-> 0, closed |-> <<>>, reg |-> 0,
           firstErr |-> 0]

NoRet == [op |-> "none", arg |-> "none", db |-> NoDb,
          err |-> ErrNil, closed |-> <<>>, reg |-> 0, firstErr |-> 0]

Return(op, arg, db, err) ==
    [op |-> op, arg |-> arg, db |-> db, err |-> err,
     closed |-> <<>>, reg |-> 0, firstErr |-> 0]

\* atomic.AddInt32(&c.cursor, 1): two's-complement wrap-around.
AddInt32(c) == IF c = MaxInt32 THEN MinInt32 ELSE c + 1

\* Go's %: the remainder has the sign of the dividend (n > 0 here).
GoRem(a, n) ==
    LET m == a % n
    IN IF a < 0 /\ m # 0 THEN m - n ELSE m

\* A *Config argument: nil, or a config with its PingTest flag.
NilConfig == [nil |-> TRUE, pingTest |-> FALSE]
Configs == {NilConfig} \cup [nil : {FALSE}, pingTest : BOOLEAN]

\* NewDatabaseWithConfig pinging whatever conf.PingTest says.
NewDatabaseWithConfigAlwaysPing(id, conf, openOk, pingOk) ==
    IF ~openOk THEN [db |-> NoDb, err |-> ErrOpen]
    ELSE IF ~pingOk THEN [db |-> NoDb, err |-> ErrPing]
    ELSE [db |-> id, err |-> ErrNil]

\* NewDatabaseWithConfig: sql.Open, then the ping when conf.PingTest is set.
\* openOk and pingOk are what sql.Open and db.PingContext answer.
NewDatabaseWithConfig(id, conf, openOk, pingOk) ==
    IF ~openOk THEN [db |-> NoDb, err |-> ErrOpen]
    ELSE IF conf.pingTest /\ ~pingOk THEN [db |-> NoDb, err |-> ErrPing]
    ELSE [db |-> id, err |-> ErrNil]

\* SetReplica without the nil check of lines 36-38.
SetReplicaOpenNoNilCheck(id, conf, openOk, pingOk) ==
    NewDatabaseWithConfig(id, conf, openOk, pingOk)

\* SetReplica up to line 42: the nil check, then the open.
SetReplicaOpen(id, conf, openOk, pingOk) ==
    IF conf.nil THEN [db |-> NoDb, err |-> ErrorClientInvalidReplica]
    ELSE NewDatabaseWithConfig(id, conf, openOk, pingOk)

\* NewClient: the state of a Client right after construction.
NewClient ==
    /\ primary = PrimaryDb
    /\ replicas = <<>>
    /\ cursor = 0
    /\ mutex = [w |-> Nobody, r |-> {}]
    /\ opened = 0

\* A Client that has served MaxInt32 round-robin reads over two
\* replicas: the counter only moves while at least two replicas are
\* registered, and nothing ever resets it.
AgedClient ==
    /\ primary = PrimaryDb
    /\ replicas = <<1, 2>>
    /\ cursor = MaxInt32
    /\ mutex = [w |-> Nobody, r |-> {}]
    /\ opened = 2

\* A Lock that excludes nobody.
CanLockAlways(m) == TRUE

\* sync.RWMutex: Lock first excludes the other writers and new readers,
\* then waits for the readers that hold the lock to leave.
CanLock(m) == m.w = Nobody
CanRLock(m) == m.w = Nobody
LockHeld(m) == m.r = {}

\* A getp that prefers a replica.
getpFirstReplica(p) == IF replicas # <<>> THEN replicas[1] ELSE p

\* c.getp()
getp(p) == p

\* getr with "n < 0" for "n <= 0" in its first case: with no replica the
\* call reaches line 137 and divides by zero.
getrSelectNoEmptyCase(n, reps, p, cur) ==
    IF n < 0 THEN [db |-> p, cur |-> cur, err |-> ErrNil]
    ELSE IF n = 0 THEN [db |-> NoDb, cur |-> AddInt32(cur), err |-> Panic]
    ELSE IF n = 1
         THEN [db |-> reps[1], cur |-> cur, err |-> ErrNil]
    ELSE LET c1 == AddInt32(cur)
             ix == GoRem(c1, n)
         IN IF ix >= 0 /\ ix < Len(reps)
            THEN [db |-> reps[ix + 1], cur |-> c1, err |-> ErrNil]
            ELSE [db |-> NoDb, cur |-> c1, err |-> Panic]

\* getr without its "n == 1" case: one replica is scheduled like many.
getrSelectNoSingleCase(n, reps, p, cur) ==
    IF n <= 0 THEN [db |-> getp(p), cur |-> cur, err |-> ErrNil]
    ELSE LET c1 == AddInt32(cur)
             ix == GoRem(c1, n)
         IN IF ix >= 0 /\ ix < Len(reps)
            THEN [db |-> reps[ix + 1], cur |-> c1, err |-> ErrNil]
            ELSE [db |-> NoDb, cur |-> c1, err |-> Panic]

\* The switch of getr on n = len(c.replicas), and the indexing of line 137.
\* Yields the handle returned (or Panic for an index out of range, or a
\* division by zero) and the new value of the counter.
getrSelect(n, reps, p, cur) ==
    IF n <= 0 THEN [db |-> getp(p), cur |-> cur, err |-> ErrNil]
    ELSE IF n = 1
         THEN IF Len(reps) >= 1
              THEN [db |-> reps[1], cur |-> cur, err |-> ErrNil]
              ELSE [db |-> NoDb, cur |-> cur, err |-> Panic]
    ELSE LET c1 == AddInt32(cur)
             ix == GoRem(c1, n)
         IN IF ix >= 0 /\ ix < Len(reps)
            THEN [db |-> reps[ix + 1], cur |-> c1, err |-> ErrNil]
            ELSE [db |-> NoDb, cur |-> c1, err |-> Panic]

\* What an unsynchronised read of c.replicas can see: the slice, or, while
\* another goroutine is storing the appended slice, a header made of the
\* old array and the new length, whose last element is not a handle.
RacyRead(reps) ==
    {reps} \cup
    IF \E u \in Threads : pc[u] = "append_store"
    THEN {Append(reps, Garbage)} ELSE {}

\* ---- SetReplica ------------------------------------------------------

\* SetReplica(replica), lines 35-42: everything before the lock is taken.
SetReplica(t) ==
    /\ pc[t] = "idle"
    /\ calls < MaxCalls
    /\ calls' = calls + 1
    /\ \E conf \in Configs, openOk \in BOOLEAN, pingOk \in BOOLEAN :
         LET o == SetReplicaOpen(opened + 1, conf, openOk, pingOk)
             arg == IF conf.nil THEN "nil"
                    ELSE IF conf.pingTest THEN "conf_ping" ELSE "conf"
         IN IF o.err # ErrNil
            THEN /\ ret' = Return("SetReplica", arg, NoDb, o.err)
                 /\ UNCHANGED <<opened, pc, call>>
            ELSE /\ opened' = opened + 1
                 /\ pc' = [pc EXCEPT ![t] = "lock"]
                 /\ call' = [call EXCEPT ![t] =
                               [NoCall EXCEPT !.op = "SetReplica", !.d = o.db,
                                              !.arg = arg]]
                 /\ UNCHANGED ret
    /\ UNCHANGED <<primary, replicas, cursor, mutex, picks>>
    /\ UNCHANGED resultVars

\* c.mutex.Lock(), line 44: become the writer.
Lock(t) ==
    /\ pc[t] = "lock"
    /\ CanLock(mutex)
    /\ mutex' = [mutex EXCEPT !.w = t]
    /\ pc' = [pc EXCEPT ![t] = "lockwait"]
    /\ UNCHANGED <<primary, replicas, cursor, opened, call, ret, picks, calls>>
    /\ UNCHANGED resultVars

\* c.mutex.Lock(), line 44: the readers have left, Lock returns.
LockAcquired(t) ==
    /\ pc[t] = "lockwait"
    /\ LockHeld(mutex)
    /\ pc' = [pc EXCEPT ![t] = "append_load"]
    /\ UNCHANGED <<primary, replicas, cursor, mutex, opened, call, ret,
                   picks, calls>>
    /\ UNCHANGED resultVars

\* line 45, right-hand side: append(c.replicas, d) loads the slice.
AppendLoad(t) ==
    /\ pc[t] = "append_load"
    /\ call' = [call EXCEPT ![t].tmp = replicas]
    /\ pc' = [pc EXCEPT ![t] = "append_store"]
    /\ UNCHANGED <<primary, replicas, cursor, mutex, opened, ret, picks, calls>>
    /\ UNCHANGED resultVars

\* The assignment of line 45 storing a slice of the new handle alone.
AppendStoreFresh(t) ==
    /\ pc[t] = "append_store"
    /\ replicas' = <<call[t].d>>
    /\ pc' = [pc EXCEPT ![t] = "unlock"]
    /\ UNCHANGED <<primary, cursor, mutex, opened, call, ret, picks, calls>>
    /\ UNCHANGED resultVars

\* line 45, assignment: c.replicas = the appended slice.
AppendStore(t) ==
    /\ pc[t] = "append_store"
    /\ replicas' = Append(call[t].tmp, call[t].d)
    /\ pc' = [pc EXCEPT ![t] = "unlock"]
    /\ UNCHANGED <<primary, cursor, mutex, opened, call, ret, picks, calls>>
    /\ UNCHANGED resultVars

\* c.mutex.Unlock() and return nil, lines 46-48.
Unlock(t) ==
    /\ pc[t] = "unlock"
    /\ mutex' = [mutex EXCEPT !.w = Nobody]
    /\ ret' = Return("SetReplica", call[t].arg, call[t].d, ErrNil)
    /\ pc' = [pc EXCEPT ![t] = "idle"]
    /\ call' = [call EXCEPT ![t] = NoCall]
    /\ UNCHANGED <<primary, replicas, cursor, opened, picks, calls>>
    /\ UNCHANGED resultVars

\* ---- reads: Query, QueryContext, GetReplica -> getr ------------------

CallGetr(t, op) ==
    /\ pc[t] = "idle"
    /\ calls < MaxCalls
    /\ calls' = calls + 1
    /\ pc' = [pc EXCEPT ![t] = "rlock"]
    /\ call' = [call EXCEPT ![t] = [NoCall EXCEPT !.op = op]]
    /\ UNCHANGED <<primary, replicas, cursor, mutex, opened, ret, picks>>
    /\ UNCHANGED resultVars

Query(t) == CallGetr(t, "Query")
QueryContext(t) == CallGetr(t, "QueryContext")
GetReplica(t) == CallGetr(t, "GetReplica")

\* c.mutex.RLock(), line 124.
RLock(t) ==
    /\ pc[t] = "rlock"
    /\ CanRLock(mutex)
    /\ mutex' = [mutex EXCEPT !.r = @ \cup {t}]
    /\ pc' = [pc EXCEPT ![t] = "getr_len"]
    /\ UNCHANGED <<primary, replicas, cursor, opened, call, ret, picks, calls>>
    /\ UNCHANGED resultVars

\* n := len(c.replicas), line 127.
GetrLen(t) ==
    /\ pc[t] = "getr_len"
    /\ call' = [call EXCEPT ![t].n = Len(replicas)]
    /\ pc' = [pc EXCEPT ![t] = "getr_switch"]
    /\ UNCHANGED <<primary, replicas, cursor, mutex, opened, ret, picks, calls>>
    /\ UNCHANGED resultVars

\* the switch and the scheduling, lines 128-137.
GetrSwitch(t) ==
    /\ pc[t] = "getr_switch"
    /\ LET s == getrSelect(call[t].n, replicas, primary, cursor)
       IN /\ cursor' = s.cur
          /\ call' = [call EXCEPT ![t].d = s.db, ![t].err = s.err]
          /\ picks' = Append(picks, [n |-> call[t].n, len |-> Len(replicas),
                                     reps |-> replicas, db |-> s.db,
                                     err |-> s.err])
    /\ pc' = [pc EXCEPT ![t] = "runlock"]
    /\ UNCHANGED <<primary, replicas, mutex, opened, ret, calls>>
    /\ UNCHANGED resultVars

\* getr returning without the deferred RUnlock of line 125.
RUnlockLeaked(t) ==
    /\ pc[t] = "runlock"
    /\ ret' = Return(call[t].op, "none", call[t].d, call[t].err)
    /\ pc' = [pc EXCEPT ![t] = "idle"]
    /\ call' = [call EXCEPT ![t] = NoCall]
    /\ UNCHANGED <<primary, replicas, cursor, mutex, opened, picks, calls>>
    /\ UNCHANGED resultVars

\* the deferred c.mutex.RUnlock(), line 125; it also runs when line 137
\* panics.
RUnlock(t) ==
    /\ pc[t] = "runlock"
    /\ mutex' = [mutex EXCEPT !.r = @ \ {t}]
    /\ ret' = Return(call[t].op, "none", call[t].d, call[t].err)
    /\ pc' = [pc EXCEPT ![t] = "idle"]
    /\ call' = [call EXCEPT ![t] = NoCall]
    /\ UNCHANGED <<primary, replicas, cursor, opened, picks, calls>>
    /\ UNCHANGED resultVars

\* ---- writes: Exec, ExecContext, BeginTransaction(Context), GetPrimary --

CallGetp(t, op) ==
    /\ pc[t] = "idle"
    /\ calls < MaxCalls
    /\ calls' = calls + 1
    /\ ret' = Return(op, "none", getp(primary), ErrNil)
    /\ UNCHANGED <<primary, replicas, cursor, mutex, opened, pc, call, picks>>
    /\ UNCHANGED resultVars

Exec(t) == CallGetp(t, "Exec")
ExecContext(t) == CallGetp(t, "ExecContext")
BeginTransaction(t) == CallGetp(t, "BeginTransaction")
BeginTransactionContext(t) == CallGetp(t, "BeginTransactionContext")
GetPrimary(t) == CallGetp(t, "GetPrimary")

\* ---- Close -----------------------------------------------------------

\* lines 107-109: c.primary.Close(); its error is dropped.
Close(t) ==
    /\ pc[t] = "idle"
    /\ calls < MaxCalls
    /\ calls' = calls + 1
    /\ \E failed \in BOOLEAN :
         call' = [call EXCEPT ![t] =
                    [NoCall EXCEPT !.op = "Close", !.closed = <<primary>>,
                                   !.reg = Len(replicas),
                                   !.firstErr = IF failed THEN 1 ELSE 0]]
    /\ pc' = [pc EXCEPT ![t] = "close_len"]
    /\ UNCHANGED <<primary, replicas, cursor, mutex, opened, ret, picks>>
    /\ UNCHANGED resultVars

CloseReturn(t, err) ==
    [op |-> "Close", arg |-> "none", db |-> NoDb, err |-> err,
     closed |-> call[t].closed, reg |-> call[t].reg,
     firstErr |-> call[t].firstErr]

\* line 110: len(c.replicas) > 0, read without the lock.
CloseLen(t) ==
    /\ pc[t] = "close_len"
    /\ IF Len(replicas) > 0
       THEN /\ pc' = [pc EXCEPT ![t] = "close_range"]
            /\ UNCHANGED <<call, ret>>
       ELSE /\ ret' = CloseReturn(t, ErrNil)
            /\ pc' = [pc EXCEPT ![t] = "idle"]
            /\ call' = [call EXCEPT ![t] = NoCall]
    /\ UNCHANGED <<primary, replicas, cursor, mutex, opened, picks, calls>>
    /\ UNCHANGED resultVars

\* line 111: range c.replicas evaluates the slice once, without the lock.
CloseRange(t) ==
    /\ pc[t] = "close_range"
    /\ \E v \in RacyRead(replicas) :
         call' = [call EXCEPT ![t].view = v, ![t].i = 0]
    /\ pc' = [pc EXCEPT ![t] = "close_loop"]
    /\ UNCHANGED <<primary, replicas, cursor, mutex, opened, ret, picks, calls>>
    /\ UNCHANGED resultVars

\* lines 111-113: one iteration of the loop (r.Close(), error dropped), or
\* its end.  Calling Close on what is not a handle faults.
CloseLoop(t) ==
    /\ pc[t] = "close_loop"
    /\ IF call[t].i < Len(call[t].view)
       THEN LET r == call[t].view[call[t].i + 1]
            IN IF r = Garbage
               THEN /\ ret' = CloseReturn(t, Panic)
                    /\ pc' = [pc EXCEPT ![t] = "idle"]
                    /\ call' = [call EXCEPT ![t] = NoCall]
               ELSE /\ \E failed \in BOOLEAN :
                         call' = [call EXCEPT
                            ![t].i = @ + 1,
                            ![t].closed = Append(@, r),
                            ![t].firstErr =
                                IF @ = 0 /\ failed
                                THEN Len(call[t].closed) + 1 ELSE @]
                    /\ UNCHANGED <<pc, ret>>
       ELSE /\ ret' = CloseReturn(t, ErrNil)
            /\ pc' = [pc EXCEPT ![t] = "idle"]
            /\ call' = [call EXCEPT ![t] = NoCall]
    /\ UNCHANGED <<primary, replicas, cursor, mutex, opened, picks, calls>>
    /\ UNCHANGED resultVars

ClientStep(t) ==
    \/ SetReplica(t)
    \/ Lock(t) \/ LockAcquired(t) \/ AppendLoad(t) \/ AppendStore(t)
    \/ Unlock(t)
    \/ Query(t) \/ QueryContext(t) \/ GetReplica(t)
    \/ RLock(t) \/ GetrLen(t) \/ GetrSwitch(t) \/ RUnlock(t)
    \/ Exec(t) \/ ExecContext(t) \/ BeginTransaction(t)
    \/ BeginTransactionContext(t) \/ GetPrimary(t)
    \/ Close(t) \/ CloseLen(t) \/ CloseRange(t) \/ CloseLoop(t)

\* ================================================================= Result

ErrQuery == "query failed"
ErrScan == "scan failed"
ErrRowsClosed == "sql: Rows are closed"
ErrorResultNoColumnsFound == "no columns found"
ErrDriver == "driver: not supported"

\* The column lists a cursor reports: none, one, two, two of one name.
ColumnLists == {<<>>, <<"id">>, <<"id", "name">>, <<"id", "id">>}

\* A sql.RawBytes value: nil (SQL NULL), or the bytes of the value.  A Go
\* string is modelled by the sequence of its bytes.
RawValues == {[nil |-> TRUE, b |-> <<>>], [nil |-> FALSE, b |-> <<>>],
              [nil |-> FALSE, b |-> <<120>>]}

\* The data of a cursor over the columns cols: at most MaxRows rows, each one
\* value per column; a cursor without columns delivers no row.
DataOver(cols) ==
    IF cols = <<>> THEN {<<>>}
    ELSE UNION {[1 .. k -> [1 .. Len(cols) -> RawValues]] : k \in 0 .. MaxRows}

\* The *sql.Rows a successful query returns: open, before its first row.
\* bad is the row whose Scan fails (0: none does).
CursorsOver(cols) ==
    UNION {[cols : {cols}, data : {data}, pos : {0}, closed : {FALSE},
            bad : 0 .. Len(data)] : data \in DataOver(cols)}
Cursors == UNION {CursorsOver(cols) : cols \in ColumnLists}

NoRows == [cols |-> <<>>, data |-> <<>>, pos |-> 0, closed |-> TRUE, bad |-> 0]
NoResult == [hit |-> NoDb, rows |-> FALSE, result |-> FALSE]
NoMade == [op |-> "none", err |-> ErrNil]
NoOut == [op |-> "none", isnil |-> TRUE, val |-> <<>>, n |-> 0, err |-> ErrNil]

ResultIdle ==
    /\ result = NoResult
    /\ rows = NoRows
    /\ made = NoMade
    /\ out = NoOut
    /\ uses = 0

\* The handles a Result can come from: the primary and one replica.
ResultDbs == {PrimaryDb, 1}

\* A Result built with both its cursor and its outcome set.
buildResultRowsBoth(d, present) ==
    [hit |-> d, rows |-> present, result |-> TRUE]

\* buildResultRows(d, rows): Result{d.cf.UniqId(), rows, nil}; present says
\* whether rows is non-nil.
buildResultRows(d, present) ==
    [hit |-> d, rows |-> present, result |-> FALSE]

\* buildResult(d, result): Result{d.cf.UniqId(), nil, result}.
buildResult(d, present) ==
    [hit |-> d, rows |-> FALSE, result |-> present]

\* ---- *sql.Rows, as Result.Row and Result.Rows use it ------------------

\* r.rows.Columns(): an error once the cursor is closed.
RowsColumns(r) ==
    IF r.closed THEN [cols |-> <<>>, err |-> ErrRowsClosed]
    ELSE [cols |-> r.cols, err |-> ErrNil]

\* r.rows.Next(): steps to the next row; closes the cursor when there is
\* none.
RowsNext(r) ==
    IF r.closed THEN [ok |-> FALSE, r |-> r]
    ELSE IF r.pos < Len(r.data)
         THEN [ok |-> TRUE, r |-> [r EXCEPT !.pos = @ + 1]]
    ELSE [ok |-> FALSE, r |-> [r EXCEPT !.closed = TRUE]]

\* r.rows.Scan(scanArgs...): the values of the current row, or an error; it
\* leaves the cursor as it is.
RowsScan(r) ==
    IF r.closed THEN [values |-> <<>>, err |-> ErrRowsClosed]
    ELSE IF r.pos = r.bad THEN [values |-> <<>>, err |-> ErrScan]
    ELSE [values |-> r.data[r.pos], err |-> ErrNil]

\* r.rows.Close()
RowsClose(r) == [r EXCEPT !.closed = TRUE]

\* The conversion with both branches storing "".
ColumnStringEmpty(value) == <<>>

\* The if of lines 352-356 (and 390-394): nil becomes "", the rest
\* string(value).
ColumnString(value) == IF value.nil THEN <<>> ELSE value.b

\* The loop of lines 351-357 (and 389-395) from column i on: row[columns[i]]
\* is assigned for each i in turn.
RECURSIVE FillRow(_, _, _, _)
FillRow(columns, values, i, row) ==
    IF i > Len(values) THEN row
    ELSE FillRow(columns, values, i + 1,
                 [c \in (DOMAIN row) \cup {columns[i]} |->
                    IF c = columns[i] THEN ColumnString(values[i]) ELSE row[c]])

EmptyMap == [c \in {} |-> <<>>]

\* Result.Row from line 338 on: the cursor has columns.
RowRead(r, columns) ==
    LET nx == RowsNext(r)
    IN IF nx.ok
       THEN LET sc == RowsScan(nx.r)
            IN IF sc.err # ErrNil
               THEN [r |-> nx.r, isnil |-> TRUE, val |-> <<>>, err |-> sc.err]
               ELSE [r |-> RowsClose(nx.r), isnil |-> FALSE,
                     val |-> FillRow(columns, sc.values, 1, EmptyMap),
                     err |-> ErrNil]
       ELSE [r |-> nx.r, isnil |-> TRUE, val |-> <<>>, err |-> ErrNil]

\* Row with the error of Columns dropped ("columns, _ :=" at line 331).
ResultRowUnchecked(res, r) ==
    IF ~res.rows THEN [r |-> r, isnil |-> TRUE, val |-> <<>>, err |-> ErrNil]
    ELSE LET c == RowsColumns(r)
         IN IF Len(c.cols) = 0
            THEN [r |-> r, isnil |-> TRUE, val |-> <<>>,
                  err |-> ErrorResultNoColumnsFound]
            ELSE RowRead(r, c.cols)

\* Row without the "len(columns) == 0" return of lines 335-337.
ResultRowNoColumnCheck(res, r) ==
    IF ~res.rows THEN [r |-> r, isnil |-> TRUE, val |-> <<>>, err |-> ErrNil]
    ELSE LET c == RowsColumns(r)
         IN IF c.err # ErrNil
            THEN [r |-> r, isnil |-> TRUE, val |-> <<>>, err |-> c.err]
            ELSE RowRead(r, c.cols)

\* Result.Row, lines 326-361.
ResultRow(res, r) ==
    IF ~res.rows THEN [r |-> r, isnil |-> TRUE, val |-> <<>>, err |-> ErrNil]
    ELSE LET c == RowsColumns(r)
         IN IF c.err # ErrNil
            THEN [r |-> r, isnil |-> TRUE, val |-> <<>>, err |-> c.err]
            ELSE IF Len(c.cols) = 0
            THEN [r |-> r, isnil |-> TRUE, val |-> <<>>,
                  err |-> ErrorResultNoColumnsFound]
            ELSE RowRead(r, c.cols)

\* The loop of Rows with "if" for "for": it stops after the first row.
RowsLoopOnce(r, columns, acc) ==
    LET nx == RowsNext(r)
    IN IF ~nx.ok
       THEN [r |-> nx.r, isnil |-> acc = <<>>, val |-> acc, err |-> ErrNil]
       ELSE LET sc == RowsScan(nx.r)
            IN IF sc.err # ErrNil
               THEN [r |-> nx.r, isnil |-> TRUE, val |-> <<>>, err |-> sc.err]
               ELSE [r |-> nx.r, isnil |-> FALSE,
                     val |-> Append(acc, FillRow(columns, sc.values, 1, EmptyMap)),
                     err |-> ErrNil]

\* The loop of Result.Rows, lines 382-398: acc is the slice built so far.
RECURSIVE RowsLoop(_, _, _)
RowsLoop(r, columns, acc) ==
    LET nx == RowsNext(r)
    IN IF ~nx.ok
       THEN [r |-> nx.r, isnil |-> acc = <<>>, val |-> acc, err |-> ErrNil]
       ELSE LET sc == RowsScan(nx.r)
            IN IF sc.err # ErrNil
               THEN [r |-> nx.r, isnil |-> TRUE, val |-> <<>>, err |-> sc.err]
               ELSE RowsLoop(nx.r, columns,
                      Append(acc, FillRow(columns, sc.values, 1, EmptyMap)))

\* Rows without the "r.rows == nil" return of lines 366-368.
ResultRowsNoNilCheck(res, r) ==
    LET c == RowsColumns(r)
    IN IF c.err # ErrNil
       THEN [r |-> r, isnil |-> TRUE, val |-> <<>>, err |-> c.err]
       ELSE IF Len(c.cols) = 0
       THEN [r |-> r, isnil |-> TRUE, val |-> <<>>,
             err |-> ErrorResultNoColumnsFound]
       ELSE RowsLoop(r, c.cols, <<>>)

\* Result.Rows, lines 364-399.
ResultRows(res, r) ==
    IF ~res.rows THEN [r |-> r, isnil |-> TRUE, val |-> <<>>, err |-> ErrNil]
    ELSE LET c == RowsColumns(r)
         IN IF c.err # ErrNil
            THEN [r |-> r, isnil |-> TRUE, val |-> <<>>, err |-> c.err]
            ELSE IF Len(c.cols) = 0
            THEN [r |-> r, isnil |-> TRUE, val |-> <<>>,
                  err |-> ErrorResultNoColumnsFound]
            ELSE RowsLoop(r, c.cols, <<>>)

\* ---- the calls that produce a Result ---------------------------------

Held == made.op # "none"
QueryOps == {"Client.Query", "Database.QueryContext",
             "Transaction.QueryContext", "Statement.QueryContext"}
ExecOps == {"Client.Exec", "Database.ExecContext",
            "Transaction.ExecContext", "Statement.ExecContext"}

\* rows, err := <db|tx|stmt>.QueryContext(...); return buildResultRows(d,
\* rows), err.  The driver answers a cursor and no error, or no cursor and
\* an error.
QueryCall(op) ==
    /\ ~Held
    /\ \E d \in ResultDbs :
         \/ \E c \in Cursors :
              /\ result' = buildResultRows(d, TRUE)
              /\ rows' = c
              /\ made' = [op |-> op, err |-> ErrNil]
         \/ /\ result' = buildResultRows(d, FALSE)
            /\ rows' = NoRows
            /\ made' = [op |-> op, err |-> ErrQuery]
    /\ UNCHANGED <<out, uses>>
    /\ UNCHANGED clientVars

\* result, err := <db|tx|stmt>.ExecContext(...); return buildResult(d,
\* result), err.
ExecCall(op) ==
    /\ ~Held
    /\ \E d \in ResultDbs, ok \in BOOLEAN :
         /\ result' = buildResult(d, ok)
         /\ made' = [op |-> op, err |-> IF ok THEN ErrNil ELSE ErrQuery]
    /\ UNCHANGED <<rows, out, uses>>
    /\ UNCHANGED clientVars

ClientQuery == QueryCall("Client.Query")
ClientExec == ExecCall("Client.Exec")
DatabaseQueryContext == QueryCall("Database.QueryContext")
DatabaseExecContext == ExecCall("Database.ExecContext")
TransactionQueryContext == QueryCall("Transaction.QueryContext")
TransactionExecContext == ExecCall("Transaction.ExecContext")
StatementQueryContext == QueryCall("Statement.QueryContext")
StatementExecContext == ExecCall("Statement.ExecContext")

\* ---- the calls on a Result -------------------------------------------

\* result.Row()
Row ==
    /\ Held
    /\ uses < MaxUses
    /\ uses' = uses + 1
    /\ LET o == ResultRow(result, rows)
       IN /\ rows' = o.r
          /\ out' = [op |-> "Row", isnil |-> o.isnil, val |-> o.val,
                     n |-> 0, err |-> o.err]
    /\ UNCHANGED <<result, made>>
    /\ UNCHANGED clientVars

\* result.Rows()
Rows ==
    /\ Held
    /\ uses < MaxUses
    /\ uses' = uses + 1
    /\ LET o == ResultRows(result, rows)
       IN /\ rows' = o.r
          /\ out' = [op |-> "Rows", isnil |-> o.isnil, val |-> o.val,
                     n |-> 0, err |-> o.err]
    /\ UNCHANGED <<result, made>>
    /\ UNCHANGED clientVars

\* r.result.RowsAffected() and r.result.LastInsertId(), lines 410 and 419:
\* a method call on the sql.Result interface.  On the nil interface the
\* call faults (nil dereference); otherwise the driver answers n, or the
\* error failed stands for.
ResultOutcome(res, n, failed) ==
    IF ~res.result THEN [n |-> 0, err |-> Panic]
    ELSE IF failed THEN [n |-> 0, err |-> ErrDriver]
    ELSE [n |-> n, err |-> ErrNil]

\* The counts and ids a driver answers.
DriverCounts == {0, 1}

OutcomeCall(op) ==
    /\ Held
    /\ uses < MaxUses
    /\ uses' = uses + 1
    /\ \E n \in DriverCounts, failed \in BOOLEAN :
         LET o == ResultOutcome(result, n, failed)
         IN out' = [NoOut EXCEPT !.op = op, !.n = o.n, !.err = o.err]
    /\ UNCHANGED <<result, rows, made>>
    /\ UNCHANGED clientVars

\* result.RowsAffected()
RowsAffected == OutcomeCall("RowsAffected")

\* result.LastInsertId()
LastInsertId == OutcomeCall("LastInsertId")

\* The caller drops the Result.
Discard ==
    /\ Held
    /\ result' = NoResult
    /\ rows' = NoRows
    /\ made' = NoMade
    /\ out' = NoOut
    /\ uses' = 0
    /\ UNCHANGED clientVars

ClientIdle ==
    /\ pc = [t \in Threads |-> "idle"]
    /\ call = [t \in Threads |-> NoCall]
    /\ ret = NoRet
    /\ picks = <<>>
    /\ calls = 0

Init ==
    /\ NewClient \/ AgedClient
    /\ ClientIdle
    /\ ResultIdle

Next == \E t \in Threads : ClientStep(t)

Spec == Init /\ [][Next]_vars

InitResult ==
    /\ NewClient
    /\ ClientIdle
    /\ ResultIdle

NextResult ==
    \/ ClientQuery \/ ClientExec
    \/ DatabaseQueryContext \/ DatabaseExecContext
    \/ TransactionQueryContext \/ TransactionExecContext
    \/ StatementQueryContext \/ StatementExecContext
    \/ Row \/ Rows \/ RowsAffected \/ LastInsertId \/ Discard

SpecResult == InitResult /\ [][NextResult]_vars

\* ---- reads and SetReplica under a fair scheduler ----------------------

\* A step of goroutine t inside a call of SetReplica or of a read: every
\* statement after the call has been entered.
Progress(t) ==
    \/ Lock(t) \/ LockAcquired(t) \/ AppendLoad(t) \/ AppendStore(t)
    \/ Unlock(t)
    \/ RLock(t) \/ GetrLen(t) \/ GetrSwitch(t) \/ RUnlock(t)

\* Goroutine t enters a call of SetReplica or of a read, or goes on in one.
LiveStep(t) ==
    \/ SetReplica(t)
    \/ Query(t) \/ QueryContext(t) \/ GetReplica(t)
    \/ Progress(t)

NextLive == \E t \in Threads : LiveStep(t)

\* The Go scheduler runs every goroutine that stays runnable; a goroutine
\* blocked in Lock or RLock is runnable again once the lock admits it.
Fairness == \A t \in Threads : WF_vars(Progress(t))

SpecLive == Init /\ [][NextLive]_vars /\ Fairness

\* ================================================================= claims

Range(q) == {q[i] : i \in 1 .. Len(q)}
SetReplicaPcs == {"lock", "lockwait", "append_load", "append_store", "unlock"}
Quiet == \A t \in Threads : pc[t] = "idle"

\* A call that starts and returns in one step (SetReplica failing before
\* the lock, and the calls routed through getp).
ReturnsAtOnce == calls' = calls + 1 /\ pc' = pc

\* picks[i .. i+N-1] are N consecutive read selections made with N replicas.
Window(i, N) ==
    /\ i + N - 1 <= Len(picks)
    /\ \A j \in i .. i + N - 1 : picks[j].len = N

\* C1: with N >= 2 replicas, any N consecutive read selections select each
\* of the N replicas exactly once, each selection taking the replica that
\* follows the previous one cyclically.
C1_RoundRobin ==
    \A i \in 1 .. Len(picks) : \A N \in 2 .. Len(replicas) :
        Window(i, N) =>
            /\ \A k \in 1 .. N :
                  Cardinality({j \in i .. i + N - 1 :
                                 picks[j].db = picks[i].reps[k]}) = 1
            /\ \A j \in i .. i + N - 2 : \E k \in 1 .. N :
                  /\ picks[j].db = picks[i].reps[k]
                  /\ picks[j + 1].db = picks[i].reps[(k % N) + 1]

\* C2: a read selection made while the replica sequence is empty returns
\* the primary.
C2_EmptyReadsPrimary ==
    \A i \in 1 .. Len(picks) :
        picks[i].len = 0 => picks[i].db = primary /\ picks[i].err = ErrNil

\* a read selection served by the primary after earlier calls were made.
C2_Witness ==
    /\ Len(picks) >= 1
    /\ picks[Len(picks)].len = 0
    /\ picks[Len(picks)].db = primary
    /\ calls >= 3

\* C3: Exec, ExecContext, BeginTransaction, BeginTransactionContext and
\* GetPrimary use the primary handle, which is no replica, and leave the
\* counter, the replica sequence and the selections as they were.
C3_WritesUsePrimary ==
    [][(ReturnsAtOnce /\ ret'.op \in PrimaryOps) =>
          /\ ret'.db = primary
          /\ ret'.db \notin Range(replicas)
          /\ ret'.err = ErrNil
          /\ UNCHANGED <<primary, replicas, cursor, picks, mutex>>]_vars

\* Exec returned the primary with two replicas registered and the counter
\* past its wrap-around.
C3_Witness ==
    /\ ret.op = "Exec"
    /\ ret.db = primary
    /\ Len(replicas) = 2
    /\ cursor < 0

\* C4: SetReplica(nil) returns ErrorClientInvalidReplica and leaves the
\* replica sequence and the counter as they were.
C4_NilReplicaRejected ==
    [][(ReturnsAtOnce /\ ret'.op = "SetReplica" /\ ret'.arg = "nil") =>
          /\ ret'.err = ErrorClientInvalidReplica
          /\ UNCHANGED <<replicas, cursor, opened>>]_vars

\* SetReplica(nil) returned its error on a client that holds a replica.
C4_Witness ==
    /\ ret.op = "SetReplica"
    /\ ret.arg = "nil"
    /\ ret.err = ErrorClientInvalidReplica
    /\ Len(replicas) = 1

\* C5: every handle opened by a SetReplica call is either still on its way
\* to the append, or occurs exactly once in the replica sequence, which
\* holds nothing else; a SetReplica that opened its handle returns nil.
C5_NoLostReplica ==
    /\ \A h \in 1 .. opened :
          \/ \E t \in Threads :
                /\ pc[t] \in {"lock", "lockwait", "append_load", "append_store"}
                /\ call[t].d = h
          \/ Cardinality({i \in 1 .. Len(replicas) : replicas[i] = h}) = 1
    /\ Range(replicas) \subseteq 1 .. opened
    /\ Quiet => Len(replicas) = opened
    /\ (ret.op = "SetReplica" /\ ret.db # NoDb) =>
          ret.err = ErrNil /\ ret.db \in Range(replicas)

\* two SetReplica calls overlapped (the handle opened second was appended
\* first) and both have returned.
C5_Witness ==
    /\ Quiet
    /\ ret.op = "SetReplica" /\ ret.err = ErrNil
    /\ \E i \in 1 .. Len(replicas) : \E j \in 1 .. Len(replicas) :
          i < j /\ replicas[i] > replicas[j]

\* C6: Close closes the primary, then every registered replica in
\* registration order, whatever the closes return, and returns normally.
C6_CloseAll ==
    ret.op = "Close" =>
        /\ ret.err = ErrNil
        /\ \E k \in ret.reg .. Len(replicas) :
              ret.closed = <<primary>> \o SubSeq(replicas, 1, k)

\* A call of Row or Rows on a Result that holds a cursor.
Materialises ==
    uses' = uses + 1 /\ out'.op \in {"Row", "Rows"} /\ result.rows

\* What a row is to be decoded to: each column name maps to "" when the
\* value of its (last) column is NULL, and to the value's bytes otherwise.
LastIndex(cols, c) ==
    CHOOSE i \in 1 .. Len(cols) :
        cols[i] = c /\ \A j \in i + 1 .. Len(cols) : cols[j] # c
Decoded(cols, vals) ==
    [c \in Range(cols) |->
        IF vals[LastIndex(cols, c)].nil THEN <<>> ELSE vals[LastIndex(cols, c)].b]

\* C7 (as claimed): Row or Rows called again, after an earlier call closed
\* or exhausted the cursor, returns an empty result and no error.
C7_SecondCallEmpty ==
    [][(Materialises /\ uses >= 1 /\ rows.closed) =>
          out'.err = ErrNil /\ out'.isnil]_vars

\* C7 (amended): Row or Rows called again, after an earlier call closed or
\* exhausted the cursor, returns no data and the error Columns reports for
\* a closed cursor, and leaves the cursor as it is.
C7_SecondCallRowsClosed ==
    [][(Materialises /\ uses >= 1 /\ rows.closed) =>
          /\ out'.err = ErrRowsClosed
          /\ out'.isnil /\ out'.val = <<>>
          /\ rows' = rows]_vars

\* Rows read the two rows of a cursor, and a second call then failed.
C7_Witness ==
    /\ uses = 2
    /\ result.rows /\ rows.closed /\ rows.pos = 2
    /\ out.op = "Rows" /\ out.err = ErrRowsClosed

\* C8: Row on a cursor that has a row to deliver reads that one row,
\* returns its mapping with no error, and leaves the cursor closed.
C8_RowReadsFirstAndCloses ==
    [][(Materialises /\ out'.op = "Row" /\ ~rows.closed
          /\ rows.pos < Len(rows.data)) =>
          /\ rows'.pos = rows.pos + 1
          /\ out'.err = ErrNil /\ ~out'.isnil
          /\ out'.val = Decoded(rows.cols, rows.data[rows.pos + 1])
          /\ rows'.closed]_vars

\* C9: a call of Rows that returns no error on a cursor with a column
\* returns one mapping for each row the cursor had yet to deliver, in the
\* cursor's order, and leaves the cursor exhausted and closed.
C9_RowsReadsAll ==
    [][(Materialises /\ out'.op = "Rows" /\ Len(rows.cols) >= 1
          /\ out'.err = ErrNil) =>
          /\ out'.val = [i \in 1 .. Len(rows.data) - rows.pos |->
                           Decoded(rows.cols, rows.data[rows.pos + i])]
          /\ rows'.pos = Len(rows.data)
          /\ rows'.closed]_vars

\* Rows returned the two different rows of a cursor.
C9_Witness ==
    /\ out.op = "Rows" /\ out.err = ErrNil
    /\ Len(out.val) = 2 /\ out.val[1] # out.val[2]
    /\ out.val[1] = Decoded(rows.cols, rows.data[1])
    /\ rows.closed

\* C10 (as claimed): every Result a Query or Exec call returns has exactly
\* one of its cursor and its outcome.
C10_ExactlyOne == Held => (result.rows # result.result)

\* C10 (amended): a Result never has both its cursor and its outcome; it
\* has exactly one of them (the cursor from a Query call, the outcome from
\* an Exec call) when the call returned no error, and neither when the
\* call returned an error.
C10_OneUnlessError ==
    Held =>
        /\ ~(result.rows /\ result.result)
        /\ made.err = ErrNil => (result.rows # result.result)
        /\ made.err # ErrNil => (~result.rows /\ ~result.result)
        /\ result.rows => made.op \in QueryOps
        /\ result.result => made.op \in ExecOps

\* a Query call returned an error together with a Result that has neither.
C10_Witness ==
    /\ made.op = "Database.QueryContext"
    /\ made.err = ErrQuery
    /\ ~result.rows /\ ~result.result


\* A call of Row or Rows.
RowOrRows == uses' = uses + 1 /\ out'.op \in {"Row", "Rows"}

\* C11: on a Result that wraps a mutation outcome and no cursor, Row returns
\* an empty (nil) mapping and no error, Rows returns an empty (nil) sequence
\* and no error, and neither changes the Result or its outcome.
C11_MutationResultEmpty ==
    [][(RowOrRows /\ result.result /\ ~result.rows) =>
          /\ out'.err = ErrNil
          /\ out'.isnil /\ out'.val = <<>>
          /\ UNCHANGED <<result, rows, made>>]_vars

\* Row and then Rows were called on the Result of a successful Exec.
C11_Witness ==
    /\ made.op = "Client.Exec" /\ made.err = ErrNil
    /\ result.result /\ ~result.rows
    /\ uses = 2
    /\ out.op = "Rows" /\ out.err = ErrNil /\ out.isnil


\* C12: on a Result whose open cursor reports zero columns, Row and Rows
\* return no data and ErrorResultNoColumnsFound, and leave the cursor where
\* it was: no row is read.
C12_NoColumnsFound ==
    [][(Materialises /\ ~rows.closed /\ rows.cols = <<>>) =>
          /\ out'.err = ErrorResultNoColumnsFound
          /\ out'.isnil /\ out'.val = <<>>
          /\ rows' = rows]_vars

\* Rows and then Row both failed on a cursor without columns.
C12_Witness ==
    /\ result.rows /\ rows.cols = <<>> /\ rows.pos = 0
    /\ uses = 2
    /\ out.op = "Row" /\ out.err = ErrorResultNoColumnsFound /\ out.isnil


\* The string form of a column value: "" for NULL, its bytes otherwise.
StringForm(v) == IF v.nil THEN <<>> ELSE v.b

\* m has the column names as its keys and, under the name of each column,
\* the string form of that column's value.
DecodesEvery(m, cols, vals) ==
    /\ DOMAIN m = Range(cols)
    /\ \A i \in 1 .. Len(cols) : m[cols[i]] = StringForm(vals[i])

\* The same, for the columns whose name no later column bears.
DecodesLast(m, cols, vals) ==
    /\ DOMAIN m = Range(cols)
    /\ \A i \in 1 .. Len(cols) :
          (\A j \in i + 1 .. Len(cols) : cols[j] # cols[i]) =>
              m[cols[i]] = StringForm(vals[i])

\* A call of Row or Rows that returned data.
ReturnsData == Materialises /\ out'.err = ErrNil /\ ~out'.isnil

\* C13 (as claimed): every mapping Row or Rows returns has every reported
\* column as a key and holds, for every column of the row, "" when the
\* value is NULL and the value's string form otherwise.
C13_EveryColumnDecoded ==
    [][ReturnsData =>
          IF out'.op = "Row"
          THEN DecodesEvery(out'.val, rows.cols, rows.data[rows.pos + 1])
          ELSE \A k \in 1 .. Len(out'.val) :
                  DecodesEvery(out'.val[k], rows.cols,
                               rows.data[rows.pos + k])]_vars

\* C13 (amended): every mapping Row or Rows returns has every reported
\* column name as a key and holds under it "" when the value of the last
\* column of that name is NULL, and that value's string form otherwise; Row
\* and Rows return the same mapping for the same row.
C13_LastColumnDecoded ==
    [][ReturnsData =>
          IF out'.op = "Row"
          THEN /\ DecodesLast(out'.val, rows.cols, rows.data[rows.pos + 1])
               /\ ResultRows(result, rows).err = ErrNil =>
                     ResultRows(result, rows).val[1] = out'.val
          ELSE /\ \A k \in 1 .. Len(out'.val) :
                     DecodesLast(out'.val[k], rows.cols,
                                 rows.data[rows.pos + k])
               /\ ResultRow(result, rows).err = ErrNil
               /\ ResultRow(result, rows).val = out'.val[1]]_vars

\* Rows returned a row whose first column is NULL and whose second is not.
C13_Witness ==
    /\ out.op = "Rows" /\ out.err = ErrNil /\ ~out.isnil
    /\ rows.cols = <<"id", "name">>
    /\ rows.data[1][1].nil /\ rows.data[1][2] = [nil |-> FALSE, b |-> <<120>>]
    /\ out.val[1] = [c \in {"id", "name"} |->
                        IF c = "id" THEN <<>> ELSE <<120>>]


\* C14: for every value of the counter, also past its wrap-around, the
\* index a read selection computes with N >= 2 replicas lies in 0 .. N-1,
\* and the selection returns a replica without failing.
C14_IndexInRange ==
    /\ \A t \in Threads :
          (pc[t] = "getr_switch" /\ call[t].n >= 2) =>
              GoRem(AddInt32(cursor), call[t].n) \in 0 .. call[t].n - 1
    /\ \A i \in 1 .. Len(picks) :
          picks[i].n >= 2 =>
              picks[i].err = ErrNil /\ picks[i].db \in Range(picks[i].reps)


\* C15: a SetReplica call with a non-nil config whose open fails returns
\* the error of the open (that of sql.Open, or that of the ping, which
\* only a config with PingTest set can meet) and leaves the replica
\* sequence, the counter and the lock as they were.
C15_OpenFailureReturned ==
    [][(ReturnsAtOnce /\ ret'.op = "SetReplica" /\ ret'.arg # "nil") =>
          /\ ret'.err \in {ErrOpen, ErrPing}
          /\ ret'.err = ErrPing => ret'.arg = "conf_ping"
          /\ ret'.db = NoDb
          /\ UNCHANGED <<primary, replicas, cursor, mutex, opened, picks>>]_vars

\* SetReplica returned the error of the ping on a client that holds a
\* replica, and no handle was added.
C15_Witness ==
    /\ ret.op = "SetReplica" /\ ret.arg = "conf_ping" /\ ret.err = ErrPing
    /\ Quiet
    /\ Len(replicas) = 1 /\ opened = 1
    /\ calls = 2


\* C16: RowsAffected and LastInsertId called on a Result that wraps a
\* cursor and no mutation outcome return an error to the caller: they
\* neither return without error nor fault.
C16_OutcomeCallFailsExplicitly ==
    [][(/\ uses' = uses + 1
        /\ out'.op \in {"RowsAffected", "LastInsertId"}
        /\ result.rows /\ ~result.result) =>
          out'.err \notin {ErrNil, Panic}]_vars


\* Thread t makes its read selection (lines 128-137) in this step.
Selects(t) == pc[t] = "getr_switch" /\ pc'[t] = "runlock"

\* C17: a read selection made while exactly one replica is registered
\* selects that replica, without failing, and leaves the counter as it
\* was; the call then returns that replica.
C17_SingleReplica ==
    [][\A t \in Threads :
          /\ (Selects(t) /\ Len(replicas) = 1) =>
                /\ call[t].n = 1
                /\ call'[t].d = replicas[1] /\ call'[t].err = ErrNil
                /\ cursor' = cursor
                /\ replicas' = replicas
          /\ (pc[t] = "runlock" /\ pc'[t] = "idle" /\ call[t].n = 1) =>
                /\ ret'.db = call[t].d /\ ret'.err = ErrNil
                /\ ret'.op \in ReadOps
                /\ cursor' = cursor]_vars

\* two read selections were served by the only replica and the counter has
\* not moved.
C17_Witness ==
    /\ Len(replicas) = 1
    /\ Len(picks) = 2
    /\ picks[1].len = 1 /\ picks[2].len = 1
    /\ picks[1].db = replicas[1] /\ picks[2].db = replicas[1]
    /\ cursor = 0
    /\ ret.op \in ReadOps /\ ret.db = replicas[1]


\* Where a thread is about to read, or is reading, c.replicas.
GetrReadPcs == {"getr_len", "getr_switch"}
CloseReadPcs == {"close_len", "close_range", "close_loop"}
AppendPcs == {"append_load", "append_store"}

\* C18: a thread reads the length or the contents of the replica sequence,
\* in a read selection or in Close, only while it holds the lock in shared
\* mode; a thread appends only while it holds the lock in exclusive mode;
\* so no read of the sequence overlaps an append to it.
C18_ReadsUnderLock ==
    /\ \A t \in Threads :
          pc[t] \in GetrReadPcs \cup CloseReadPcs => t \in mutex.r
    /\ \A t \in Threads :
          pc[t] \in AppendPcs => mutex.w = t /\ mutex.r = {}
    /\ \A t \in Threads : \A u \in Threads :
          ~(pc[t] \in AppendPcs /\ pc[u] \in GetrReadPcs \cup CloseReadPcs)

\* p is a prefix of q.
IsPrefix(p, q) == Len(p) <= Len(q) /\ SubSeq(q, 1, Len(p)) = p

\* C19: the primary handle is a handle and never changes; the replica
\* sequence changes only by one handle being appended, so that every
\* earlier value of it is a prefix of every later one, and the replica a
\* read selection picked at an index below the count it read is still at
\* that index.
C19_PrimaryFixedReplicasGrow ==
    [][/\ primary = PrimaryDb /\ primary' = primary
       /\ IsPrefix(replicas, replicas')
       /\ Len(replicas') <= Len(replicas) + 1
       /\ \A i \in 1 .. Len(picks') :
             /\ IsPrefix(picks'[i].reps, replicas')
             /\ (picks'[i].n >= 1 /\ picks'[i].err = ErrNil) =>
                   \E k \in 1 .. picks'[i].n :
                       /\ picks'[i].db = picks'[i].reps[k]
                       /\ picks'[i].db = replicas'[k]]_vars

\* a replica was selected while it was the only one, and a second replica
\* has been appended since.
C19_Witness ==
    /\ Len(replicas) = 2
    /\ Len(picks) = 1 /\ picks[1].len = 1
    /\ picks[1].reps = <<replicas[1]>>
    /\ picks[1].db = replicas[1]
    /\ Quiet


\* C20: whenever Row or Rows returns on a Result that wraps a cursor, on any
\* of its paths, the cursor is closed (by Close, or by the Next that found
\* it exhausted).
C20_CursorClosedOnReturn ==
    [][Materialises => rows'.closed]_vars


\* The lock with no writer and no reader.
Unlocked == [w |-> Nobody, r |-> {}]

\* C21: under a fair scheduler the calls of reads and of SetReplica that
\* were entered have all returned from some point on, with the lock free,
\* so no goroutine waits for the lock forever; the lock is free whenever no
\* call is in progress; and SetReplica opens its handle before it asks for
\* the lock, holding no lock while it does.
C21_CallsComplete ==
    /\ <>[](Quiet /\ mutex = Unlocked)
    /\ [](Quiet => mutex = Unlocked)
    /\ [][\A t \in Threads :
            (pc[t] = "idle" /\ pc'[t] = "lock") =>
                /\ opened' = opened + 1
                /\ call'[t].d = opened'
                /\ mutex' = mutex
                /\ mutex.w # t /\ t \notin mutex.r]_vars

\* three calls have returned: two SetReplica calls that overlapped (the
\* handle opened first was appended last) and a read made between their
\* appends; the lock is free.
C21_Witness ==
    /\ Quiet
    /\ calls = 3
    /\ replicas = <<2, 1>>
    /\ Len(picks) = 1 /\ picks[1].reps = <<2>> /\ picks[1].db = 2
    /\ mutex = Unlocked

====
